---- MODULE Spec2Model ----
(***************************************************************************)
(* State-machine model of the download-state engine in src/models.py      *)
(* (Peer, FileInfo, BlockRequest, BlockRequestFuture, PieceInfo,           *)
(* SessionStatistics, DownloadInfo).                                       *)
(*                                                                         *)
(* Python objects that are shared by reference (the bitarray and the set   *)
(* of sources of a PieceInfo, which copy.copy() does not duplicate) live   *)
(* in small per-piece heaps; a PieceInfo record holds a slot number, 0     *)
(* standing for None.  An Optional value that is not a reference is <<>>   *)
(* for None and <<v>> for the value v.  A BlockRequestFuture carries its   *)
(* identity in the field id; it lives in the pending set that holds it,    *)
(* and the futures that a call resolves are shown in last_call.resolved.   *)
(***************************************************************************)
EXTENDS Integers, Sequences, FiniteSets, TLC

VARIABLES
    ctor_raised,            \* exception raised by DownloadInfo.__init__ ("none" if it returned)
    piece_length,           \* DownloadInfo.piece_length
    files,                  \* DownloadInfo.files: sequence of FileInfo records
    pieces,                 \* DownloadInfo._pieces: the current piece array
    prev_pieces,            \* the piece objects of the array replaced by the last reset_run_state
    bitarrays,              \* heap of bitarray objects: [piece index][slot] -> sequence of BOOLEAN
    peer_sets,              \* heap of _sources set objects: [piece index][slot] -> set of Peer
    interesting_pieces,     \* DownloadInfo._interesting_pieces (Optional set)
    downloaded_piece_count, \* DownloadInfo.downloaded_piece_count
    complete,               \* DownloadInfo._complete
    host_distrust_rates,    \* DownloadInfo._host_distrust_rates: function on the hosts seen
    session_statistics,     \* DownloadInfo._session_statistics
    clock,                  \* time.time()
    distrust_calls,         \* history: number of increase_distrust calls made per host
    marked_ranges,          \* history: the (begin, length) ranges that mark_downloaded_blocks
                            \* has recorded in the live bitfield of each piece index
    client,                 \* a ControlClient, the coroutine of its connect() and the servers
    last_call               \* the last operation called, its arguments and what it raised

vars == <<ctor_raised, piece_length, files, pieces, prev_pieces, bitarrays, peer_sets,
          interesting_pieces, downloaded_piece_count, complete,
          host_distrust_rates, session_statistics, clock, distrust_calls, marked_ranges,
          client, last_call>>

----------------------------------------------------------------------------
(* Program constants *)

MARKED_BLOCK_SIZE == 1024

DISTRUST_RATE_TO_BAN == 5

PEER_CONSIDERATION_TIME == 10

----------------------------------------------------------------------------
(* Bounds of the model *)

MaxFutures == 2

MaxPaths == 2

MaxDistrust == 6

MaxClock == 2

MaxBytes == 2

MaxTotal == 3

MaxPorts == 3

MaxHashes == 3

----------------------------------------------------------------------------
(* Python values *)

None == <<>>

Some(v) == <<v>>

IsNone(o) == o = <<>>

Value(o) == o[1]

\* math.ceil(a / b) for integers a and b > 0
Ceil(a, b) == (a + b - 1) \div b

Min(a, b) == IF a < b THEN a ELSE b

Max(a, b) == IF a > b THEN a ELSE b

\* Peer: equality and hash over (host, port)
Peer(host, port) == [host |-> host, port |-> port]

Hosts == {"h1", "h2"}

Peers == {Peer("h1", 1), Peer("h1", 2), Peer("h2", 1)}

----------------------------------------------------------------------------
(* FileInfo and the file tree (DownloadInfo._create_file_tree)             *)

\* FileInfo.__init__: offset is None until the tree is built, selected is True
FileInfo(length, path) == [length |-> length, path |-> path, offset |-> None, selected |-> TRUE]

RECURSIVE SumLengths(_, _)
SumLengths(fs, n) == IF n = 0 THEN 0 ELSE SumLengths(fs, n - 1) + fs[n].length

\* DownloadInfo.total_size
total_size(fs) == SumLengths(fs, Len(fs))

\* _create_file_tree, the offsets: each file starts where the previous one ends
AssignOffsets(fs) == [i \in 1..Len(fs) |-> [fs[i] EXCEPT !.offset = SumLengths(fs, i - 1)]]

IsPrefix(p, q) == Len(p) <= Len(q) /\ SubSeq(q, 1, Len(p)) = p

\* _create_file_tree, the tree: a node is named by its path from the root.  A file
\* with an empty path is the tree itself; a path that is a proper prefix of a
\* file's path is a directory (a dict).
HasFileAt(fs, p) == \E i \in 1..Len(fs) : fs[i].path = p

\* directory[item.path[-1]] = item: a later file of the same path replaces the earlier
FileAt(fs, p) == CHOOSE i \in 1..Len(fs) :
                     /\ fs[i].path = p
                     /\ \A j \in 1..Len(fs) : fs[j].path = p => j <= i

HasDirAt(fs, p) == \E i \in 1..Len(fs) : IsPrefix(p, fs[i].path) /\ Len(fs[i].path) > Len(p)

FileNode(i) == [kind |-> "file", index |-> i, prefix |-> <<>>]

DirNode(p) == [kind |-> "dir", index |-> 0, prefix |-> p]

ErrorNode(e) == [kind |-> e, index |-> 0, prefix |-> <<>>]

TreeRoot(fs) == IF HasFileAt(fs, <<>>) THEN FileNode(FileAt(fs, <<>>)) ELSE DirNode(<<>>)

\* _get_file_tree_node: result = result[elem] for each elem of the path.  A missing
\* key is a KeyError, re-raised as ValueError; subscripting a FileInfo is a
\* TypeError, which the try block does not catch.
RECURSIVE WalkTree(_, _, _, _)
WalkTree(fs, node, path, k) ==
    IF k > Len(path) THEN node
    ELSE IF node.kind = "file" THEN ErrorNode("TypeError")
    ELSE LET q == Append(node.prefix, path[k])
         IN  IF HasFileAt(fs, q) THEN WalkTree(fs, FileNode(FileAt(fs, q)), path, k + 1)
             ELSE IF HasDirAt(fs, q) THEN WalkTree(fs, DirNode(q), path, k + 1)
             ELSE ErrorNode("ValueError")

_get_file_tree_node(fs, path) == WalkTree(fs, TreeRoot(fs), path, 1)

\* The keys of the dict at p, in insertion order: a key is inserted when the first
\* file below it is added to the tree.
RECURSIVE ChildNames(_, _, _)
ChildNames(fs, p, n) ==
    IF n = 0 THEN <<>>
    ELSE LET before == ChildNames(fs, p, n - 1)
             f == fs[n].path
         IN  IF IsPrefix(p, f) /\ Len(f) > Len(p)
                  /\ ~ \E k \in 1..Len(before) : before[k] = f[Len(p) + 1]
             THEN Append(before, f[Len(p) + 1])
             ELSE before

\* _traverse_nodes: the FileInfo itself, or the files below a dict, depth first
RECURSIVE TraverseDir(_, _, _, _)
TraverseDir(fs, p, names, k) ==
    IF k > Len(names) THEN <<>>
    ELSE LET q == Append(p, names[k])
             here == IF HasFileAt(fs, q) THEN <<FileAt(fs, q)>>
                     ELSE TraverseDir(fs, q, ChildNames(fs, q, Len(fs)), 1)
         IN  here \o TraverseDir(fs, p, names, k + 1)

_traverse_nodes(fs, node) ==
    IF node.kind = "file" THEN <<node.index>>
    ELSE TraverseDir(fs, node.prefix, ChildNames(fs, node.prefix, Len(fs)), 1)

----------------------------------------------------------------------------
(* BlockRequest / BlockRequestFuture                                       *)

BlockRequest(piece_index, block_begin, block_length) ==
    [piece_index |-> piece_index, block_begin |-> block_begin, block_length |-> block_length]

\* BlockRequestFuture.__init__: a pending asyncio.Future with the request's fields;
\* id is the identity of the new object
BlockRequestFuture(id, piece_index, block_begin, block_length) ==
    [id |-> id, piece_index |-> piece_index, block_begin |-> block_begin,
     block_length |-> block_length,
     state |-> "PENDING", result |-> None, prev_performers |-> {}, performer |-> None]

\* BlockRequest.__eq__: the fields of the request
BlockRequestEq(r1, r2) ==
    /\ r1.piece_index = r2.piece_index
    /\ r1.block_begin = r2.block_begin
    /\ r1.block_length = r2.block_length

\* The comparison by fields, applied to two futures
FutureEqByFields(f, g) == BlockRequestEq(f, g)

\* BlockRequestFuture.__eq__ = asyncio.Future.__eq__ (and __hash__ likewise): these are
\* object's, so two futures are equal exactly when they are the same object
FutureEq(f, g) == f.id = g.id

\* set.add(f) on a set of futures: f is added unless an equal element is present
SetAdd(S, f) == IF \E g \in S : FutureEq(g, f) THEN S ELSE S \cup {f}

----------------------------------------------------------------------------
(* PieceInfo                                                               *)

Slots == {1, 2}

\* PieceInfo.reset_content: `slot` holds the fresh, empty set of sources
reset_content(p, slot) ==
    [p EXCEPT !.downloaded = FALSE, !.sources = slot,
              !.block_downloaded = 0, !.blocks_expected = Some({})]

\* PieceInfo.__init__
PieceInfo(piece_hash, length) ==
    reset_content([piece_hash |-> piece_hash, length |-> length, selected |-> TRUE,
                   owners |-> {}, validating |-> FALSE, downloaded |-> FALSE,
                   sources |-> 0, block_downloaded |-> 0, blocks_expected |-> None], 1)

\* A variant of PieceInfo.reset_run_state that resets the content as well
PieceInfo_reset_run_state_content(p) ==
    [p EXCEPT !.owners = {}, !.validating = FALSE, !.blocks_expected = Some({}),
              !.downloaded = FALSE, !.block_downloaded = 0]

\* PieceInfo.reset_run_state
PieceInfo_reset_run_state(p) ==
    [p EXCEPT !.owners = {}, !.validating = FALSE, !.blocks_expected = Some({})]

\* bitarray(ceil(length / MARKED_BLOCK_SIZE)); setall(False)
NewBitarray(length) == [k \in 1..Ceil(length, MARKED_BLOCK_SIZE) |-> FALSE]

\* A variant of MarkBits that writes the whole array: True inside the slice, False outside
MarkBitsAssign(arr, length, request) ==
    LET mark_begin == Ceil(request.block_begin, MARKED_BLOCK_SIZE)
        mark_end == IF request.block_begin + request.block_length = length
                    THEN Len(arr)
                    ELSE (request.block_begin + request.block_length) \div MARKED_BLOCK_SIZE
    IN  [k \in 1..Len(arr) |-> mark_begin <= k - 1 /\ k - 1 < mark_end]

\* A variant of MarkBits that rounds the slice outward, as the query slice is
MarkBitsOutward(arr, length, request) ==
    LET mark_begin == request.block_begin \div MARKED_BLOCK_SIZE
        mark_end == Ceil(request.block_begin + request.block_length, MARKED_BLOCK_SIZE)
    IN  [k \in 1..Len(arr) |-> IF mark_begin <= k - 1 /\ k - 1 < mark_end THEN TRUE ELSE arr[k]]

\* arr[mark_begin:mark_end] = True, for the request's range in a piece of `length`
\* bytes.  Bit k of the bitarray (from 0) is element k + 1 here; a slice bound
\* beyond the array is cut to its length.
MarkBits(arr, length, request) ==
    LET mark_begin == Ceil(request.block_begin, MARKED_BLOCK_SIZE)
        mark_end == IF request.block_begin + request.block_length = length
                    THEN Len(arr)
                    ELSE (request.block_begin + request.block_length) \div MARKED_BLOCK_SIZE
    IN  [k \in 1..Len(arr) |-> IF mark_begin <= k - 1 /\ k - 1 < mark_end THEN TRUE ELSE arr[k]]

\* arr[query_begin:query_end].all()
SliceAll(arr, query_begin, query_end) ==
    \A k \in 1..Len(arr) : (query_begin <= k - 1 /\ k - 1 < query_end) => arr[k]

\* The test of the loop over blocks_expected in mark_downloaded_blocks
BlockArrived(arr, fut) ==
    SliceAll(arr, fut.block_begin \div MARKED_BLOCK_SIZE,
             Ceil(fut.block_begin + fut.block_length, MARKED_BLOCK_SIZE))

\* PieceInfo.are_all_blocks_downloaded, on a piece and the bitarray heap of its index
are_all_blocks_downloaded(p, arrs) ==
    p.downloaded \/ (p.block_downloaded # 0 /\ \A k \in 1..Len(arrs[p.block_downloaded]) :
                                                 arrs[p.block_downloaded][k])

\* asyncio.Future.set_result on a pending future
SetResult(fut, source) == [fut EXCEPT !.state = "FINISHED", !.result = Some(source)]

----------------------------------------------------------------------------
(* The heaps: which objects are alive                                      *)

HasPrev == prev_pieces # <<>>

\* The piece object an operation is called on: of the current array, or (old) of
\* the array that the last reset_run_state replaced
PieceObj(old, i) == IF old THEN prev_pieces[i] ELSE pieces[i]

\* The slots of index i that some piece object of the arrays pcs and prev refers to
UsedSlots(pcs, prev, i, field) ==
    {IF field = "sources" THEN pcs[i].sources ELSE pcs[i].block_downloaded}
    \cup (IF prev = <<>> THEN {}
          ELSE {IF field = "sources" THEN prev[i].sources ELSE prev[i].block_downloaded})

\* A slot for a new object: the first that nothing refers to
FreeSlot(pcs, prev, i, field) ==
    CHOOSE s \in Slots : /\ s \notin UsedSlots(pcs, prev, i, field)
                         /\ \A t \in Slots : t \notin UsedSlots(pcs, prev, i, field) => s <= t

\* Objects that nothing refers to any more are reclaimed
CollectBitarrays(heap, pcs, prev) ==
    [i \in DOMAIN heap |-> [s \in Slots |->
        IF s \in UsedSlots(pcs, prev, i, "block_downloaded") THEN heap[i][s] ELSE <<>>]]

CollectPeerSets(heap, pcs, prev) ==
    [i \in DOMAIN heap |-> [s \in Slots |->
        IF s \in UsedSlots(pcs, prev, i, "sources") THEN heap[i][s] ELSE {}]]

\* The values a piece's references stand for
SourcesOf(p, sets) == IF p.sources = 0 THEN None ELSE Some(sets[p.sources])

BitsOf(p, arrs) == IF p.block_downloaded = 0 THEN None ELSE Some(arrs[p.block_downloaded])

----------------------------------------------------------------------------
(* SessionStatistics                                                       *)

EmptyMap == [x \in {} |-> 0]

\* d[key] = value on a dict
DictSet(d, key, value) == [k \in DOMAIN d \cup {key} |-> IF k = key THEN value ELSE d[k]]

\* A variant of SessionStatistics.__init__ that carries nothing over
SessionStatisticsFresh(prev) ==
    [peer_count |-> 0, peer_last_download |-> EmptyMap, peer_last_upload |-> EmptyMap,
     downloaded_per_session |-> 0, uploaded_per_session |-> 0,
     download_speed |-> None, upload_speed |-> None,
     total_downloaded |-> 0, total_uploaded |-> 0]

\* SessionStatistics.__init__: prev is None or the previous session's statistics
SessionStatistics(prev) ==
    [peer_count |-> 0, peer_last_download |-> EmptyMap, peer_last_upload |-> EmptyMap,
     downloaded_per_session |-> 0, uploaded_per_session |-> 0,
     download_speed |-> None, upload_speed |-> None,
     total_downloaded |-> IF IsNone(prev) THEN 0 ELSE Value(prev).total_downloaded,
     total_uploaded |-> IF IsNone(prev) THEN 0 ELSE Value(prev).total_uploaded]

----------------------------------------------------------------------------
(* ControlClient (src/control_client.py)                                   *)

\* ControlServer.PORT_RANGE: the candidate ports, in the order of the range
PORT_RANGE == 1..MaxPorts

\* ControlServer.HANDSHAKE_MESSAGE: a fixed sequence of bytes
HANDSHAKE_MESSAGE == <<"B", "T">>

\* What the far end of a candidate port does: it refuses the connection, or it
\* accepts it, sends some bytes and then closes or goes on to serve requests
Server(accepts, sends) == [accepts |-> accepts, sends |-> sends]

Refuse == Server(FALSE, <<>>)

Servers == {Refuse} \cup {Server(TRUE, sends) :
                            sends \in {<<>>, <<"B">>, <<"B", "X">>, <<"B", "T">>, <<"B", "T", "R">>}}

\* ControlClient.__init__, with the coroutine of connect() not started: pc is the
\* await the coroutine stands at, port its loop variable, channels the state of
\* the StreamWriter opened to each port, tried the ports asked so far.  A reader
\* or writer is 0 for None, else the port of its channel.
ControlClient(servers) ==
    [reader |-> 0, writer |-> 0, pc |-> "new", port |-> 0,
     channels |-> [port \in PORT_RANGE |-> "none"], tried |-> <<>>, servers |-> servers]

\* ControlClient.close()
ControlClient_close(c) ==
    IF c.writer # 0 THEN [c EXCEPT !.channels[c.writer] = "closed"] ELSE c

\* A variant of the except clause that drops the streams without closing them
ExceptClauseNoClose(c) ==
    LET d == [c EXCEPT !.reader = 0, !.writer = 0]
    IN  IF c.port + 1 \in PORT_RANGE
        THEN [d EXCEPT !.port = c.port + 1, !.pc = "open_connection"]
        ELSE [d EXCEPT !.pc = "raised"]

\* except Exception: close, forget the streams; then the next port of the range,
\* or the else clause of the loop: raise RuntimeError
ExceptClause(c) ==
    LET d == [ControlClient_close(c) EXCEPT !.reader = 0, !.writer = 0]
    IN  IF c.port + 1 \in PORT_RANGE
        THEN [d EXCEPT !.port = c.port + 1, !.pc = "open_connection"]
        ELSE [d EXCEPT !.pc = "raised"]

\* The variables of the DownloadInfo, which the client does not touch
download_vars == <<ctor_raised, piece_length, files, pieces, prev_pieces, bitarrays,
                   peer_sets, interesting_pieces, downloaded_piece_count, complete,
                   host_distrust_rates, session_statistics, clock, distrust_calls,
                   marked_ranges, last_call>>

\* connect() is called: the loop takes the first port of the range
connect ==
    /\ client.pc = "new"
    /\ client' = [client EXCEPT !.port = 1, !.pc = "open_connection"]
    /\ UNCHANGED download_vars

\* await asyncio.open_connection(port=port) returns the streams of a new channel,
\* or raises because the far end refuses
open_connection ==
    /\ client.pc = "open_connection"
    /\ LET c == [client EXCEPT !.tried = Append(@, client.port)]
       IN  client' = IF ~ c.servers[c.port].accepts
                     THEN ExceptClause(c)
                     ELSE [c EXCEPT !.reader = c.port, !.writer = c.port,
                                    !.channels[c.port] = "open", !.pc = "readexactly"]
    /\ UNCHANGED download_vars

\* await self._reader.readexactly(len(HANDSHAKE_MESSAGE)) returns the first bytes
\* sent, or raises IncompleteReadError if the far end closes before that many; a
\* message that differs raises RuntimeError; else the loop breaks
readexactly ==
    /\ client.pc = "readexactly"
    /\ LET sent == client.servers[client.port].sends
           n == Len(HANDSHAKE_MESSAGE)
       IN  client' = IF Len(sent) < n THEN ExceptClause(client)
                     ELSE IF SubSeq(sent, 1, n) # HANDSHAKE_MESSAGE THEN ExceptClause(client)
                     ELSE [client EXCEPT !.pc = "returned"]
    /\ UNCHANGED download_vars

\* close() on a client whose connect() has returned or raised (__aexit__)
close ==
    /\ client.pc \in {"returned", "raised"}
    /\ client' = [ControlClient_close(client) EXCEPT !.pc = "closed"]
    /\ UNCHANGED download_vars

----------------------------------------------------------------------------
(* DownloadInfo.__init__                                                   *)

Meta(pl, hashes, fs) == [piece_length |-> pl, piece_hashes |-> hashes, files |-> fs]

\* The files of the metadata, with their offsets
CtorFiles(md) == AssignOffsets([i \in 1..Len(md.files) |->
                                   FileInfo(md.files[i].length, md.files[i].path)])

\* self._pieces as built from piece_hashes: all but the last of piece_length
CtorPieces(md) ==
    LET n == Len(md.piece_hashes)
        last_piece_length == total_size(CtorFiles(md)) - (n - 1) * md.piece_length
    IN  [k \in 1..n |-> PieceInfo(md.piece_hashes[k],
                                  IF k < n THEN md.piece_length ELSE last_piece_length)]

\* A variant of the constructor's checks without the count of piece hashes
CtorRaisesAssertOnly(md) ==
    IF md.piece_hashes = <<>> THEN "AssertionError" ELSE "none"

\* What the constructor raises
CtorRaises(md) ==
    IF md.piece_hashes = <<>> THEN "AssertionError"
    ELSE IF Ceil(total_size(CtorFiles(md)), md.piece_length) # Len(md.piece_hashes)
    THEN "ValueError"
    ELSE "none"

NoCall == [op |-> "__init__", index |-> 0, old |-> FALSE, peer |-> None, request |-> None,
           paths |-> <<>>, mode |-> "", value |-> FALSE, raised |-> "none", msg |-> "",
           resolved |-> {}]

InitInfo(md) ==
    /\ ctor_raised = CtorRaises(md)
    /\ piece_length = md.piece_length
    /\ files = CtorFiles(md)
    /\ pieces = IF CtorRaises(md) = "none" THEN CtorPieces(md) ELSE <<>>
    /\ prev_pieces = <<>>
    /\ bitarrays = [i \in DOMAIN pieces |-> [s \in Slots |-> <<>>]]
    /\ peer_sets = [i \in DOMAIN pieces |-> [s \in Slots |-> {}]]
    /\ interesting_pieces = None
    /\ downloaded_piece_count = 0
    /\ complete = FALSE
    /\ host_distrust_rates = EmptyMap
    /\ session_statistics = SessionStatistics(None)
    /\ clock = 0
    /\ distrust_calls = [h \in Hosts |-> 0]
    /\ marked_ranges = [i \in DOMAIN pieces |-> {}]
    /\ last_call = [NoCall EXCEPT !.raised = CtorRaises(md)]

\* A DownloadInfo constructed from md, beside a ControlClient that is not used
InitFrom(md) == InitInfo(md) /\ client = ControlClient([port \in PORT_RANGE |-> Refuse])

Constructed == ctor_raised = "none"

----------------------------------------------------------------------------
(* Operations on a piece                                                   *)

\* The variables of DownloadInfo that no PieceInfo method touches
info_vars == <<client, ctor_raised, piece_length, files, interesting_pieces, downloaded_piece_count,
               complete, host_distrust_rates, session_statistics, clock, distrust_calls>>

\* Store the piece object p back where PieceObj(old, i) was read
PutPiece(old, i, p) ==
    IF old THEN prev_pieces' = [prev_pieces EXCEPT ![i] = p] /\ UNCHANGED pieces
    ELSE pieces' = [pieces EXCEPT ![i] = p] /\ UNCHANGED prev_pieces

CanCall(old, i) == Constructed /\ i \in DOMAIN pieces /\ (old => HasPrev)

\* The byte ranges the peer layer asks for and reports, in a piece of `length` bytes
BlockOffsets == {0, 512, 1024}

BlockEnds(length) == {e \in {512, 1024, length} : e <= length}

Requests(i, length) ==
    {BlockRequest(i - 1, x[1], x[2] - x[1]) :
        x \in {y \in BlockOffsets \X BlockEnds(length) : y[1] < y[2]}}

\* A variant of the check of mark_as_downloaded that never finds the piece downloaded
PieceAlreadyDownloadedNever(p) == FALSE

\* if self._downloaded: raise ValueError, in mark_as_downloaded
PieceAlreadyDownloaded(p) == p.downloaded

\* if self._downloaded: raise ValueError, in mark_downloaded_blocks
BlocksAlreadyDownloaded(p) == p.downloaded

\* PieceInfo.mark_downloaded_blocks(source, request).  The loop over the set
\* blocks_expected runs in the set's order, which the futures' identity hashes
\* decide: set_result raises InvalidStateError on the first arrived future that is
\* not pending, and any of the pending arrived ones may have come before it.
mark_downloaded_blocks(old, i, source, request) ==
    /\ CanCall(old, i)
    /\ LET p == PieceObj(old, i)
           call == [NoCall EXCEPT !.op = "mark_downloaded_blocks", !.index = i, !.old = old,
                                  !.peer = Some(source), !.request = Some(request)]
       IN  IF BlocksAlreadyDownloaded(p)
           THEN /\ last_call' = [call EXCEPT !.raised = "ValueError",
                                             !.msg = "The whole piece is already downloaded"]
                /\ UNCHANGED <<pieces, prev_pieces, bitarrays, peer_sets, marked_ranges>>
           ELSE LET slot == IF p.block_downloaded = 0
                            THEN FreeSlot(pieces, prev_pieces, i, "block_downloaded")
                            ELSE p.block_downloaded
                    arr0 == IF p.block_downloaded = 0 THEN NewBitarray(p.length)
                            ELSE bitarrays[i][slot]
                    arr == MarkBits(arr0, p.length, request)
                    blocks_expected == Value(p.blocks_expected)
                    arrived == {fut \in blocks_expected : BlockArrived(arr, fut)}
                    not_pending == {fut \in arrived : fut.state # "PENDING"}
                IN  /\ peer_sets' = [peer_sets EXCEPT ![i][p.sources] = @ \cup {source}]
                    /\ bitarrays' = [bitarrays EXCEPT ![i][slot] = arr]
                    /\ marked_ranges' = [marked_ranges EXCEPT ![i] =
                           @ \cup {<<request.block_begin, request.block_length>>}]
                    /\ IF not_pending = {}
                       THEN /\ PutPiece(old, i, [p EXCEPT !.block_downloaded = slot,
                                                          !.blocks_expected = Some(blocks_expected \ arrived)])
                            /\ last_call' = [call EXCEPT !.resolved =
                                                {SetResult(fut, source) : fut \in arrived}]
                       ELSE \E done \in SUBSET (arrived \ not_pending) :
                            /\ PutPiece(old, i,
                                   [p EXCEPT !.block_downloaded = slot,
                                             !.blocks_expected =
                                                 Some({IF fut \in done THEN SetResult(fut, source)
                                                       ELSE fut : fut \in blocks_expected})])
                            /\ last_call' = [call EXCEPT !.raised = "InvalidStateError",
                                                         !.resolved = {SetResult(fut, source) : fut \in done}]
    /\ UNCHANGED info_vars

\* PieceInfo.mark_as_downloaded()
mark_as_downloaded(old, i) ==
    /\ CanCall(old, i)
    /\ LET p == PieceObj(old, i)
           call == [NoCall EXCEPT !.op = "mark_as_downloaded", !.index = i, !.old = old]
           q == [p EXCEPT !.downloaded = TRUE, !.sources = 0,
                          !.block_downloaded = 0, !.blocks_expected = None]
           pcs == IF old THEN pieces ELSE [pieces EXCEPT ![i] = q]
           prev == IF old THEN [prev_pieces EXCEPT ![i] = q] ELSE prev_pieces
       IN  IF PieceAlreadyDownloaded(p)
           THEN /\ last_call' = [call EXCEPT !.raised = "ValueError",
                                             !.msg = "The piece is already downloaded"]
                /\ UNCHANGED <<pieces, prev_pieces, bitarrays, peer_sets, marked_ranges>>
           ELSE /\ pieces' = pcs
                /\ prev_pieces' = prev
                /\ bitarrays' = CollectBitarrays(bitarrays, pcs, prev)
                /\ peer_sets' = CollectPeerSets(peer_sets, pcs, prev)
                /\ marked_ranges' = [marked_ranges EXCEPT ![i] =
                       IF UsedSlots(pcs, prev, i, "block_downloaded") = {0} THEN {} ELSE @]
                /\ last_call' = call
    /\ UNCHANGED info_vars

\* The futures that some pending set holds
LiveFutures ==
    UNION {IF IsNone(pieces[i].blocks_expected) THEN {} ELSE Value(pieces[i].blocks_expected) :
              i \in DOMAIN pieces}
    \cup UNION {IF IsNone(prev_pieces[i].blocks_expected) THEN {}
                ELSE Value(prev_pieces[i].blocks_expected) : i \in DOMAIN prev_pieces}

\* The identities free for a new object
FreeIds == {id \in 1..MaxFutures : \A fut \in LiveFutures : fut.id # id}

\* The peer layer creates a BlockRequestFuture for a block of piece i and adds it to
\* the set that the blocks_expected property returns
add_expected(i, request) ==
    /\ CanCall(FALSE, i)
    /\ FreeIds # {}
    /\ ~ IsNone(pieces[i].blocks_expected)
    /\ LET id == CHOOSE x \in FreeIds : \A y \in FreeIds : x <= y
           fut == BlockRequestFuture(id, request.piece_index, request.block_begin,
                                     request.block_length)
       IN  pieces' = [pieces EXCEPT ![i].blocks_expected =
                         Some(SetAdd(Value(pieces[i].blocks_expected), fut))]
    /\ last_call' = [NoCall EXCEPT !.op = "add_expected", !.index = i]
    /\ UNCHANGED <<prev_pieces, bitarrays, peer_sets, marked_ranges, info_vars>>

\* asyncio.Future.cancel() on a BlockRequestFuture of piece i's pending set, as when
\* the task awaiting it is cancelled: a pending future becomes cancelled, a done
\* one is left as it is
cancel(old, i, fut) ==
    /\ CanCall(old, i)
    /\ ~ IsNone(PieceObj(old, i).blocks_expected)
    /\ fut \in Value(PieceObj(old, i).blocks_expected)
    /\ PutPiece(old, i, [PieceObj(old, i) EXCEPT !.blocks_expected =
           Some((Value(@) \ {fut})
                \cup {[fut EXCEPT !.state = IF @ = "PENDING" THEN "CANCELLED" ELSE @]})])
    /\ last_call' = [NoCall EXCEPT !.op = "cancel", !.index = i, !.old = old]
    /\ UNCHANGED <<bitarrays, peer_sets, marked_ranges, info_vars>>

\* piece.owners.add(peer): the peer layer records that a peer has the piece
add_owner(i, peer) ==
    /\ CanCall(FALSE, i)
    /\ peer \notin pieces[i].owners
    /\ pieces' = [pieces EXCEPT ![i].owners = @ \cup {peer}]
    /\ last_call' = [NoCall EXCEPT !.op = "add_owner", !.index = i, !.peer = Some(peer)]
    /\ UNCHANGED <<prev_pieces, bitarrays, peer_sets, marked_ranges, info_vars>>

\* piece.validating = value: set around the hash check of a piece
set_validating(i, value) ==
    /\ CanCall(FALSE, i)
    /\ pieces[i].validating # value
    /\ pieces' = [pieces EXCEPT ![i].validating = value]
    /\ last_call' = [NoCall EXCEPT !.op = "set_validating", !.index = i, !.value = value]
    /\ UNCHANGED <<prev_pieces, bitarrays, peer_sets, marked_ranges, info_vars>>

----------------------------------------------------------------------------
(* DownloadInfo.select_files                                               *)

\* The loop over paths: each path is resolved, then every file below it is marked
\* and its (offset, length) appended.  acc is [files, segments, raised]; the loop
\* ends at the first path that cannot be resolved, with what was done before it.
RECURSIVE MarkNodes(_, _, _, _)
MarkNodes(acc, nodes, k, include_paths) ==
    IF k > Len(nodes) THEN acc
    ELSE MarkNodes([acc EXCEPT !.files[nodes[k]].selected = include_paths,
                               !.segments = Append(@, <<acc.files[nodes[k]].offset,
                                                        acc.files[nodes[k]].length>>)],
                   nodes, k + 1, include_paths)

RECURSIVE CollectSegments(_, _, _, _)
CollectSegments(acc, paths, k, include_paths) ==
    IF k > Len(paths) THEN acc
    ELSE LET node == _get_file_tree_node(acc.files, paths[k])
         IN  IF node.kind \notin {"file", "dir"} THEN [acc EXCEPT !.raised = node.kind]
             ELSE CollectSegments(MarkNodes(acc, _traverse_nodes(acc.files, node), 1, include_paths),
                                  paths, k + 1, include_paths)

\* Tuples compare by their first elements, then by their second
SegmentLess(a, b) == a[1] < b[1] \/ (a[1] = b[1] /\ a[2] < b[2])

RECURSIVE InsertSegment(_, _)
InsertSegment(sorted, x) ==
    IF sorted = <<>> THEN <<x>>
    ELSE IF SegmentLess(x, Head(sorted)) THEN <<x>> \o sorted
    ELSE <<Head(sorted)>> \o InsertSegment(Tail(sorted), x)

\* segments.sort()
RECURSIVE SortSegments(_)
SortSegments(segments) ==
    IF segments = <<>> THEN <<>>
    ELSE InsertSegment(SortSegments(SubSeq(segments, 1, Len(segments) - 1)), segments[Len(segments)])

\* The loop that builds united_segments: a segment that starts where the last
\* united one ends is joined to it
RECURSIVE UniteSegments(_, _, _)
UniteSegments(segments, k, united) ==
    IF k > Len(segments) THEN united
    ELSE LET cur == segments[k]
             n == Len(united)
         IN  IF n > 0 /\ united[n][1] + united[n][2] = cur[1]
             THEN UniteSegments(segments, k + 1,
                                [united EXCEPT ![n] = <<united[n][1], united[n][2] + cur[2]>>])
             ELSE UniteSegments(segments, k + 1, Append(united, cur))

\* A variant of SegmentPieces that rounds inward in both modes
SegmentPiecesInward(offset, length, pl, include_paths) ==
    Ceil(offset, pl) .. ((offset + length) \div pl) - 1

\* range(piece_begin, piece_end) for a united segment: outward for a whitelist,
\* inward for a blacklist (pl is piece_length)
SegmentPieces(offset, length, pl, include_paths) ==
    LET piece_begin == IF include_paths THEN offset \div pl ELSE Ceil(offset, pl)
        piece_end == IF include_paths THEN Ceil(offset + length, pl) ELSE (offset + length) \div pl
    IN  piece_begin .. piece_end - 1

\* A variant of SelectPiece that forgets the content of a piece it deselects
SelectPieceForget(p, value) ==
    IF value THEN [p EXCEPT !.selected = value]
    ELSE [p EXCEPT !.selected = value, !.downloaded = FALSE]

\* info.selected = value on a piece
SelectPiece(p, value) == [p EXCEPT !.selected = value]

\* The last loop: self.pieces[index].selected = include_paths over every united
\* segment (index counts from 0, the model's arrays from 1)
SelectSegments(pcs, united, pl, include_paths) ==
    [i \in DOMAIN pcs |->
        IF \E k \in 1..Len(united) : i - 1 \in SegmentPieces(united[k][1], united[k][2], pl, include_paths)
        THEN SelectPiece(pcs[i], include_paths)
        ELSE pcs[i]]

Modes == {"whitelist", "blacklist"}

select_files(paths, mode) ==
    /\ Constructed
    /\ LET call == [NoCall EXCEPT !.op = "select_files", !.paths = paths, !.mode = mode]
           include_paths == (mode = "whitelist")
           pcs0 == [i \in DOMAIN pieces |-> SelectPiece(pieces[i], ~ include_paths)]
           fs0 == [i \in DOMAIN files |-> [files[i] EXCEPT !.selected = ~ include_paths]]
           acc == CollectSegments([files |-> fs0, segments |-> <<>>, raised |-> "none"],
                                  paths, 1, include_paths)
           united == UniteSegments(SortSegments(acc.segments), 1, <<>>)
       IN  IF mode \notin Modes
           THEN /\ last_call' = [call EXCEPT !.raised = "ValueError", !.msg = "Invalid mode"]
                /\ UNCHANGED <<pieces, files>>
           ELSE IF Len(files) = 1 /\ files[1].path = <<>>
           THEN /\ last_call' = [call EXCEPT !.raised = "ValueError",
                                             !.msg = "Can't select files in a single-file torrent"]
                /\ UNCHANGED <<pieces, files>>
           ELSE IF acc.raised # "none"
           THEN /\ last_call' = [call EXCEPT !.raised = acc.raised,
                                             !.msg = IF acc.raised = "ValueError"
                                                     THEN "Path doesn't exist in this torrent"
                                                     ELSE "'FileInfo' object is not subscriptable"]
                /\ pieces' = pcs0
                /\ files' = acc.files
           ELSE IF (include_paths /\ acc.segments = <<>>)
                    \/ (~ include_paths /\ Len(acc.segments) = Len(files))
           THEN /\ last_call' = [call EXCEPT !.raised = "ValueError",
                                             !.msg = "Can't exclude all files from the torrent"]
                /\ pieces' = pcs0
                /\ files' = acc.files
           ELSE /\ last_call' = call
                /\ pieces' = SelectSegments(pcs0, united, piece_length, include_paths)
                /\ files' = acc.files
    /\ UNCHANGED <<client, marked_ranges, ctor_raised, piece_length, prev_pieces, bitarrays, peer_sets,
                   interesting_pieces, downloaded_piece_count, complete, host_distrust_rates,
                   session_statistics, clock, distrust_calls>>

----------------------------------------------------------------------------
(* The other operations of DownloadInfo                                    *)

\* DownloadInfo.reset_run_state(): the array is replaced by shallow copies of its
\* pieces (copy.copy keeps the references to the sources set and the bitarray),
\* each then reset.  keep_old says whether a task of the previous session still
\* holds the replaced piece objects; if none does, they are gone.
reset_run_state(keep_old) ==
    /\ Constructed
    /\ LET pcs == [i \in DOMAIN pieces |-> PieceInfo_reset_run_state(pieces[i])]
           prev == IF keep_old THEN pieces ELSE <<>>
       IN  /\ pieces' = pcs
           /\ prev_pieces' = prev
           /\ bitarrays' = CollectBitarrays(bitarrays, pcs, prev)
           /\ peer_sets' = CollectPeerSets(peer_sets, pcs, prev)
    /\ interesting_pieces' = Some({})
    /\ last_call' = [NoCall EXCEPT !.op = "reset_run_state", !.value = keep_old]
    /\ UNCHANGED <<client, marked_ranges, ctor_raised, piece_length, files, downloaded_piece_count, complete,
                   host_distrust_rates, session_statistics, clock, distrust_calls>>

\* DownloadInfo.reset_stats()
reset_stats ==
    /\ Constructed
    /\ session_statistics' = SessionStatistics(Some(session_statistics))
    /\ last_call' = [NoCall EXCEPT !.op = "reset_stats"]
    /\ UNCHANGED <<client, marked_ranges, ctor_raised, piece_length, files, pieces, prev_pieces, bitarrays, peer_sets,
                   interesting_pieces, downloaded_piece_count, complete,
                   host_distrust_rates, clock, distrust_calls>>

\* A variant of bytes_left without the adjustment for the last piece
bytes_left_unadjusted == (Len(pieces) - downloaded_piece_count) * piece_length

\* DownloadInfo.bytes_left
bytes_left ==
    LET result == (Len(pieces) - downloaded_piece_count) * piece_length
        last_piece_index == Len(pieces)
    IN  IF ~ pieces[last_piece_index].downloaded
        THEN result + pieces[last_piece_index].length - piece_length
        ELSE result

\* The assertion of the complete setter
AllSelectedDownloaded == \A i \in DOMAIN pieces : pieces[i].downloaded \/ ~ pieces[i].selected

\* DownloadInfo.complete = value
set_complete(value) ==
    /\ Constructed
    /\ LET call == [NoCall EXCEPT !.op = "set_complete", !.value = value]
       IN  IF value /\ ~ AllSelectedDownloaded
           THEN /\ last_call' = [call EXCEPT !.raised = "AssertionError"]
                /\ UNCHANGED complete
           ELSE /\ last_call' = call
                /\ complete' = value
    /\ UNCHANGED <<client, marked_ranges, ctor_raised, piece_length, files, pieces, prev_pieces, bitarrays, peer_sets,
                   interesting_pieces, downloaded_piece_count,
                   host_distrust_rates, session_statistics, clock, distrust_calls>>

\* self.downloaded_piece_count += 1: done by the caller that has verified a piece
count_downloaded_piece ==
    /\ Constructed
    /\ downloaded_piece_count < Len(pieces)
    /\ downloaded_piece_count' = downloaded_piece_count + 1
    /\ last_call' = [NoCall EXCEPT !.op = "count_downloaded_piece"]
    /\ UNCHANGED <<client, marked_ranges, ctor_raised, piece_length, files, pieces, prev_pieces, bitarrays, peer_sets,
                   interesting_pieces, complete,
                   host_distrust_rates, session_statistics, clock, distrust_calls>>

\* dict.get(key, 0)
DictGet(d, key) == IF key \in DOMAIN d THEN d[key] ELSE 0

\* DownloadInfo.increase_distrust(peer)
increase_distrust(peer) ==
    /\ Constructed
    /\ distrust_calls[peer.host] < MaxDistrust
    /\ host_distrust_rates' = DictSet(host_distrust_rates, peer.host,
                                      DictGet(host_distrust_rates, peer.host) + 1)
    /\ distrust_calls' = [distrust_calls EXCEPT ![peer.host] = @ + 1]
    /\ last_call' = [NoCall EXCEPT !.op = "increase_distrust", !.peer = Some(peer)]
    /\ UNCHANGED <<client, marked_ranges, ctor_raised, piece_length, files, pieces, prev_pieces, bitarrays, peer_sets,
                   interesting_pieces, downloaded_piece_count, complete,
                   session_statistics, clock>>

\* A variant of is_banned that bans only above the threshold
is_banned_above(peer) ==
    /\ peer.host \in DOMAIN host_distrust_rates
    /\ host_distrust_rates[peer.host] > DISTRUST_RATE_TO_BAN

\* DownloadInfo.is_banned(peer)
is_banned(peer) ==
    /\ peer.host \in DOMAIN host_distrust_rates
    /\ host_distrust_rates[peer.host] >= DISTRUST_RATE_TO_BAN

\* time.time() moves on
tick ==
    /\ Constructed
    /\ clock < MaxClock
    /\ clock' = clock + 1
    /\ last_call' = [NoCall EXCEPT !.op = "tick"]
    /\ UNCHANGED <<client, marked_ranges, ctor_raised, piece_length, files, pieces, prev_pieces, bitarrays, peer_sets,
                   interesting_pieces, downloaded_piece_count, complete,
                   host_distrust_rates, session_statistics, distrust_calls>>

stats_frame == <<client, marked_ranges, ctor_raised, piece_length, files, pieces, prev_pieces, bitarrays, peer_sets,
                 interesting_pieces, downloaded_piece_count, complete,
                 host_distrust_rates, clock, distrust_calls>>

Sizes == 1..MaxBytes

\* SessionStatistics.add_downloaded(peer, size)
add_downloaded(peer, size) ==
    /\ Constructed
    /\ session_statistics.total_downloaded + size <= MaxTotal
    /\ session_statistics' =
           [session_statistics EXCEPT !.peer_last_download = DictSet(@, peer, clock),
                                      !.downloaded_per_session = @ + size,
                                      !.total_downloaded = @ + size]
    /\ last_call' = [NoCall EXCEPT !.op = "add_downloaded", !.peer = Some(peer), !.index = size]
    /\ UNCHANGED stats_frame

\* SessionStatistics.add_uploaded(peer, size)
add_uploaded(peer, size) ==
    /\ Constructed
    /\ session_statistics.total_uploaded + size <= MaxTotal
    /\ session_statistics' =
           [session_statistics EXCEPT !.peer_last_upload = DictSet(@, peer, clock),
                                      !.uploaded_per_session = @ + size,
                                      !.total_uploaded = @ + size]
    /\ last_call' = [NoCall EXCEPT !.op = "add_uploaded", !.peer = Some(peer), !.index = size]
    /\ UNCHANGED stats_frame

----------------------------------------------------------------------------
(* Transfers and specifications                                            *)

File(length, path) == [length |-> length, path |-> path]

\* One file of 1500 bytes in one piece
MetaSingle == Meta(2048, <<"hash0">>, <<File(1500, <<>>)>>)

\* One file of 3548 bytes: a piece of 2048 bytes and a last piece of 1500
MetaTwoPieces == Meta(2048, <<"hash0", "hash1">>, <<File(3548, <<>>)>>)

\* Three files in two directories levels over three pieces; the pieces 0 and 1
\* hold bytes of two files each
MetaMulti == Meta(2048, <<"hash0", "hash1", "hash2">>,
                  <<File(1024, <<"a", "x">>), File(2048, <<"a", "y">>), File(2524, <<"b">>)>>)

PieceIndexes == DOMAIN pieces

\* The pending transfers of a piece, none if blocks_expected is None
PendingOf(p) == IF IsNone(p.blocks_expected) THEN {} ELSE Value(p.blocks_expected)

\* The operations on one piece and its pending transfers
InitPiece == InitFrom(MetaSingle)

PiecePeers == {Peer("h1", 1), Peer("h2", 1)}

\* Reports of the first unit, of the rest and of the whole piece
ReportedBlocks(i) ==
    {BlockRequest(i - 1, 0, 1024), BlockRequest(i - 1, 1024, pieces[i].length - 1024),
     BlockRequest(i - 1, 0, pieces[i].length)}

\* Requests of half the first unit, of the first unit and of the rest
ExpectedBlocks(i) ==
    {BlockRequest(i - 1, 0, 512), BlockRequest(i - 1, 0, 1024),
     BlockRequest(i - 1, 1024, pieces[i].length - 1024)}

NextPiece ==
    \/ \E i \in PieceIndexes, source \in PiecePeers :
           \E request \in ReportedBlocks(i) :
               mark_downloaded_blocks(FALSE, i, source, request)
    \/ \E i \in PieceIndexes : mark_as_downloaded(FALSE, i)
    \/ \E i \in PieceIndexes : \E request \in ExpectedBlocks(i) :
           add_expected(i, request)
    \/ \E i \in PieceIndexes : \E fut \in PendingOf(pieces[i]) : cancel(FALSE, i, fut)
    \/ reset_run_state(FALSE)

SpecPiece == InitPiece /\ [][NextPiece]_vars

\* The run state of the pieces of a transfer of two pieces, over several sessions
InitRun == InitFrom(MetaTwoPieces)

NextRun ==
    \/ \E i \in PieceIndexes :
           \E request \in {BlockRequest(i - 1, 0, 1024), BlockRequest(i - 1, 0, pieces[i].length)} :
               mark_downloaded_blocks(FALSE, i, Peer("h1", 1), request)
    \/ \E i \in PieceIndexes : mark_as_downloaded(FALSE, i)
    \/ \E i \in PieceIndexes : add_expected(i, BlockRequest(i - 1, 0, pieces[i].length))
    \/ \E i \in PieceIndexes : add_owner(i, Peer("h2", 1))
    \/ \E i \in PieceIndexes, value \in BOOLEAN : set_validating(i, value)
    \/ reset_run_state(FALSE)

SpecRun == InitRun /\ [][NextRun]_vars

\* Selections on a transfer of several files, and on one of a single file
InitSelect == InitFrom(MetaMulti) \/ InitFrom(MetaSingle)

\* Paths of the tree of MetaMulti (the root, a directory, files) and a path to no node
SelectablePaths == {<<>>, <<"a">>, <<"a", "x">>, <<"a", "y">>, <<"b">>, <<"c">>}

\* Every list of at most n of these paths
RECURSIVE PathListsUpTo(_)
PathListsUpTo(n) ==
    IF n = 0 THEN {<<>>}
    ELSE PathListsUpTo(n - 1)
         \cup {Append(l, q) : l \in {m \in PathListsUpTo(n - 1) : Len(m) = n - 1},
                              q \in SelectablePaths}

PathLists == PathListsUpTo(MaxPaths)

NextSelect ==
    \/ \E paths \in PathLists, mode \in Modes : select_files(paths, mode)
    \/ \E paths \in {<<>>, <<<<"a">>>>} : select_files(paths, "greylist")

SpecSelect == InitSelect /\ [][NextSelect]_vars

\* Selection, progress and completion together, over several sessions
InitReselect == InitFrom(MetaMulti)

NextReselect ==
    \/ \E paths \in {<<>>, <<<<"a">>>>, <<<<"b">>>>, <<<<"b", "z">>>>}, mode \in Modes :
           select_files(paths, mode)
    \/ \E i \in PieceIndexes :
           mark_downloaded_blocks(FALSE, i, Peer("h1", 1), BlockRequest(i - 1, 0, 1024))
    \/ \E i \in PieceIndexes : mark_as_downloaded(FALSE, i)
    \/ add_expected(1, BlockRequest(0, 1024, 1024))
    \/ count_downloaded_piece
    \/ \E value \in BOOLEAN : set_complete(value)
    \/ reset_run_state(FALSE)

SpecReselect == InitReselect /\ [][NextReselect]_vars

\* Distrust of hosts, across resets of the run state and of the statistics
InitBan == InitFrom(MetaSingle)

NextBan ==
    \/ \E peer \in Peers : increase_distrust(peer)
    \/ reset_run_state(FALSE)
    \/ reset_stats
    \/ \E size \in Sizes : add_downloaded(Peer("h1", 1), size)

SpecBan == InitBan /\ [][NextBan]_vars

\* Construction from metadata, well formed or not, of one or two files and up to
\* MaxHashes piece hashes; then the progress of the pieces and of the counter
PieceLengths == {1024, 2048}

FileLengths == {0, 512, 1024, 1500, 2048, 3000}

Hashes(n) == [k \in 1..n |-> "hash"]

Metas ==
    {Meta(pl, Hashes(n), <<File(len, <<>>)>>) :
        pl \in PieceLengths, n \in 0..MaxHashes, len \in FileLengths}
    \cup {Meta(pl, Hashes(n), <<File(x[1], <<"f1">>), File(x[2], <<"f2">>)>>) :
             pl \in PieceLengths, n \in 0..MaxHashes, x \in FileLengths \X FileLengths}

InitCtor == \E md \in Metas : InitFrom(md)

NextCtor ==
    \/ \E i \in PieceIndexes : mark_as_downloaded(FALSE, i)
    \/ count_downloaded_piece

SpecCtor == InitCtor /\ [][NextCtor]_vars

\* The statistics of a transfer over several sessions, as the clock moves on
InitStats == InitFrom(MetaSingle)

NextStats ==
    \/ \E peer \in {Peer("h1", 1), Peer("h2", 1)}, size \in Sizes : add_downloaded(peer, size)
    \/ \E size \in Sizes : add_uploaded(Peer("h1", 1), size)
    \/ reset_stats
    \/ tick

SpecStats == InitStats /\ [][NextStats]_vars

\* Two sessions of one piece: a task of the previous session still holds the
\* piece object that reset_run_state() replaced, and reports to it (as h2) while
\* the new session reports to the new object (as h1)
InitSessions == InitFrom(MetaSingle)

SessionBlocks(i) ==
    {BlockRequest(i - 1, 0, 1024), BlockRequest(i - 1, 1024, pieces[i].length - 1024)}

NextSessions ==
    \/ \E i \in PieceIndexes : \E request \in SessionBlocks(i) :
           mark_downloaded_blocks(FALSE, i, Peer("h1", 1), request)
    \/ \E i \in PieceIndexes : \E request \in SessionBlocks(i) :
           mark_downloaded_blocks(TRUE, i, Peer("h2", 1), request)
    \/ \E i \in PieceIndexes, old \in BOOLEAN : mark_as_downloaded(old, i)
    \/ reset_run_state(TRUE)

SpecSessions == InitSessions /\ [][NextSessions]_vars

\* A ControlClient that connects, whatever the far end of each candidate port does
InitClient ==
    /\ InitInfo(MetaSingle)
    /\ \E servers \in [PORT_RANGE -> Servers] : client = ControlClient(servers)

NextClient ==
    \/ connect
    \/ open_connection
    \/ readexactly
    \/ close

SpecClient == InitClient /\ [][NextClient]_vars

\* The block bitfields of two pieces (2048 and 1500 bytes) under reports of any
\* alignment to half a unit, with no pending transfers
InitBits == InitFrom(MetaTwoPieces)

NextBits ==
    \/ \E i \in PieceIndexes : \E request \in Requests(i, pieces[i].length) :
           mark_downloaded_blocks(FALSE, i, Peer("h1", 1), request)
    \/ \E i \in PieceIndexes : mark_as_downloaded(FALSE, i)
    \/ reset_run_state(FALSE)

SpecBits == InitBits /\ [][NextBits]_vars

----------------------------------------------------------------------------
(* Properties of mark_downloaded_blocks and of the pending set             *)

\* The granularity units (counted from 0) that hold a byte of the range of r
CoveredUnits(r) ==
    {k \in 0..((r.block_begin + r.block_length) \div MARKED_BLOCK_SIZE) :
        /\ k * MARKED_BLOCK_SIZE < r.block_begin + r.block_length
        /\ (k + 1) * MARKED_BLOCK_SIZE > r.block_begin}

\* Every unit that r covers is marked in the piece p (arrs: the bitarrays of its index)
AllCoveredMarked(p, arrs, r) ==
    /\ p.block_downloaded # 0
    /\ \A k \in CoveredUnits(r) :
           k + 1 \in DOMAIN arrs[p.block_downloaded] /\ arrs[p.block_downloaded][k + 1]

\* The step is a call of mark_downloaded_blocks on a piece of the current array
MarkStep == last_call'.op = "mark_downloaded_blocks" /\ ~ last_call'.old

\* C1: in one mark_downloaded_blocks(source, request) call on a piece, every
\* pending transfer of the piece whose covered units are all marked after the call
\* is resolved with the call's source and removed from the pending set, and every
\* pending transfer with a covered unit still unmarked stays as it was, in the set.
C1_CoveredTransfersResolved ==
    [][MarkStep =>
          LET i == last_call'.index
              source == Value(last_call'.peer)
          IN  \A fut \in PendingOf(pieces[i]) :
                  IF AllCoveredMarked(pieces'[i], bitarrays'[i], fut)
                  THEN /\ fut.state = "PENDING"
                       /\ SetResult(fut, source) \in last_call'.resolved
                       /\ \A g \in PendingOf(pieces'[i]) : g.id # fut.id
                  ELSE fut \in PendingOf(pieces'[i])]_vars

\* C2 as stated: a pending set never holds two entries describing the same byte range.
C2_NoTwoEntriesForOneRange ==
    \A i \in DOMAIN pieces : \A f, g \in PendingOf(pieces[i]) : BlockRequestEq(f, g) => f = g

\* C2, amended: two BlockRequestFuture instances are equal only when they are the
\* same object, so adding a newly created instance to a pending set always adds an
\* entry, also when the set holds an entry for the same byte range already.
C2_NewInstanceAlwaysAdded ==
    [][last_call'.op = "add_expected" =>
          Cardinality(PendingOf(pieces'[last_call'.index]))
              = Cardinality(PendingOf(pieces[last_call'.index])) + 1]_vars

\* Two entries of one pending set describe the same byte range, one of them
\* cancelled and the other pending
C2_Witness ==
    /\ last_call.op = "add_expected"
    /\ \E f, g \in PendingOf(pieces[last_call.index]) :
           f # g /\ BlockRequestEq(f, g) /\ f.state # g.state

\* C11: over the mark_downloaded_blocks calls on a piece, a bit of its bitfield that
\* is true before a call is true after it, and the bitfield keeps its size.
C11_SetBitsStaySet ==
    [][MarkStep =>
          LET i == last_call'.index
              before == BitsOf(pieces[i], bitarrays[i])
              after == BitsOf(pieces'[i], bitarrays'[i])
          IN  ~ IsNone(before) =>
                  /\ ~ IsNone(after)
                  /\ Len(Value(after)) = Len(Value(before))
                  /\ \A k \in 1..Len(Value(before)) : Value(before)[k] => Value(after)[k]]_vars

\* A call whose range holds no whole unit came after both bits were set, one
\* report at a time
C11_Witness ==
    /\ last_call.op = "mark_downloaded_blocks"
    /\ last_call.raised = "none"
    /\ Value(last_call.request).block_begin = 512
    /\ Value(last_call.request).block_length = 512
    /\ BitsOf(pieces[last_call.index], bitarrays[last_call.index]) = Some(<<TRUE, TRUE>>)
    /\ <<0, pieces[last_call.index].length>> \notin marked_ranges[last_call.index]

\* The bytes of unit k (from 1) of a piece of `length` bytes lie inside the range r
UnitInside(k, length, r) ==
    /\ r[1] <= (k - 1) * MARKED_BLOCK_SIZE
    /\ Min(k * MARKED_BLOCK_SIZE, length) <= r[1] + r[2]

\* C18: each true bit of a piece's bitfield denotes a unit (cut to the piece's
\* length if it is the last) whose every byte lay inside the range of one
\* mark_downloaded_blocks request made on the piece; a request that covers a unit
\* only in part does not set its bit.
C18_BitsOnlyForWholeUnits ==
    \A i \in DOMAIN pieces :
        ~ IsNone(BitsOf(pieces[i], bitarrays[i])) =>
            \A k \in 1..Len(Value(BitsOf(pieces[i], bitarrays[i]))) :
                Value(BitsOf(pieces[i], bitarrays[i]))[k] =>
                    \E r \in marked_ranges[i] : UnitInside(k, pieces[i].length, r)

\* A report from the middle of the first unit to the end of the piece has set
\* the bit of the last unit and not that of the first
C18_Witness ==
    \E i \in DOMAIN pieces :
        /\ marked_ranges[i] = {<<512, pieces[i].length - 512>>}
        /\ BitsOf(pieces[i], bitarrays[i]) = Some(<<FALSE, TRUE>>)

\* Half a granularity unit
HalfUnit == MARKED_BLOCK_SIZE \div 2

\* The ranges together hold every byte of a piece of `length` bytes.  The ranges
\* of the reports begin and end at multiples of half a unit or at the piece's end,
\* so every byte is held iff the first byte of every half unit is.
RangesCover(ranges, length) ==
    \A b \in 0..((length - 1) \div HalfUnit) :
        \E r \in ranges : r[1] <= b * HalfUnit /\ b * HalfUnit < r[1] + r[2]

\* C20: if the ranges passed to mark_downloaded_blocks on a piece together hold
\* every byte of the piece, are_all_blocks_downloaded() is true for it.
C20_CoveredPieceAllBlocksDownloaded ==
    \A i \in DOMAIN pieces :
        RangesCover(marked_ranges[i], pieces[i].length)
            => are_all_blocks_downloaded(pieces[i], bitarrays[i])

\* C12: a mark_downloaded_blocks call on a piece that is not downloaded, with the
\* request (begin 0, length = the piece's length), makes are_all_blocks_downloaded()
\* true and leaves the piece with no pending transfers, whatever it held before.
C12_WholePieceReportClearsPending ==
    [][(/\ MarkStep
        /\ ~ pieces[last_call'.index].downloaded
        /\ Value(last_call'.request).block_begin = 0
        /\ Value(last_call'.request).block_length = pieces[last_call'.index].length)
       => /\ are_all_blocks_downloaded(pieces'[last_call'.index], bitarrays'[last_call'.index])
          /\ PendingOf(pieces'[last_call'.index]) = {}]_vars

\* C16: in every state that follows a mark_downloaded_blocks call, returned or
\* failed, each transfer still in the piece's pending set has no result and has a
\* covered unit that is not marked, also when the set held a cancelled transfer.
C16_NoTornStateAfterMark ==
    (last_call.op = "mark_downloaded_blocks" /\ ~ last_call.old)
    => \A fut \in PendingOf(pieces[last_call.index]) :
           /\ fut.state # "FINISHED"
           /\ ~ AllCoveredMarked(pieces[last_call.index], bitarrays[last_call.index], fut)

\* C9: on a piece that is already downloaded, mark_as_downloaded and
\* mark_downloaded_blocks raise ValueError and leave the piece as it was: its
\* downloaded flag, sources, bitfield and pending transfers, and all else.
C9_DownloadedPieceRejectsMarks ==
    [][(/\ last_call'.op \in {"mark_as_downloaded", "mark_downloaded_blocks"}
        /\ ~ last_call'.old
        /\ pieces[last_call'.index].downloaded)
       => /\ last_call'.raised = "ValueError"
          /\ last_call'.resolved = {}
          /\ pieces' = pieces
          /\ bitarrays' = bitarrays
          /\ peer_sets' = peer_sets]_vars

\* mark_downloaded_blocks was rejected on a downloaded piece that holds a pending transfer
C9_Witness ==
    /\ last_call.op = "mark_downloaded_blocks"
    /\ last_call.raised = "ValueError"
    /\ pieces[last_call.index].downloaded
    /\ PendingOf(pieces[last_call.index]) # {}

----------------------------------------------------------------------------
(* Properties of reset_run_state                                           *)

\* C10: reset_run_state() leaves, for every piece index, the downloaded flag, the
\* sources, the block bitfield, the selected flag, the length and the hash as they
\* were, and leaves every piece with no owners, not validating and with no pending
\* transfers.
C10_ResetRunStateKeepsContent ==
    [][last_call'.op = "reset_run_state" =>
          /\ DOMAIN pieces' = DOMAIN pieces
          /\ \A i \in DOMAIN pieces :
                 /\ pieces'[i].downloaded = pieces[i].downloaded
                 /\ SourcesOf(pieces'[i], peer_sets'[i]) = SourcesOf(pieces[i], peer_sets[i])
                 /\ BitsOf(pieces'[i], bitarrays'[i]) = BitsOf(pieces[i], bitarrays[i])
                 /\ pieces'[i].selected = pieces[i].selected
                 /\ pieces'[i].length = pieces[i].length
                 /\ pieces'[i].piece_hash = pieces[i].piece_hash
                 /\ pieces'[i].owners = {}
                 /\ ~ pieces'[i].validating
                 /\ PendingOf(pieces'[i]) = {}]_vars

\* After a reset, one piece is downloaded and another has a source and a bitfield
\* that is set in part
C10_Witness ==
    /\ last_call.op = "reset_run_state"
    /\ \E i, j \in DOMAIN pieces :
           /\ pieces[i].downloaded
           /\ ~ pieces[j].downloaded
           /\ SourcesOf(pieces[j], peer_sets[j]) = Some({Peer("h1", 1)})
           /\ BitsOf(pieces[j], bitarrays[j]) = Some(<<TRUE, FALSE>>)
           /\ pieces[j].owners = {} /\ PendingOf(pieces[j]) = {}

\* C17: after reset_run_state(), an operation on a piece of the new array leaves
\* the piece object of the previous session as it was, with its bitfield and its
\* sources, and an operation on a piece object of the previous session leaves the
\* piece of the new array as it was.
C17_SessionsDoNotShareContent ==
    [][(HasPrev /\ last_call'.op \in {"mark_downloaded_blocks", "mark_as_downloaded"})
       => LET i == last_call'.index
          IN  IF last_call'.old
              THEN /\ pieces'[i] = pieces[i]
                   /\ BitsOf(pieces'[i], bitarrays'[i]) = BitsOf(pieces[i], bitarrays[i])
                   /\ SourcesOf(pieces'[i], peer_sets'[i]) = SourcesOf(pieces[i], peer_sets[i])
              ELSE /\ prev_pieces'[i] = prev_pieces[i]
                   /\ BitsOf(prev_pieces'[i], bitarrays'[i]) = BitsOf(prev_pieces[i], bitarrays[i])
                   /\ SourcesOf(prev_pieces'[i], peer_sets'[i])
                          = SourcesOf(prev_pieces[i], peer_sets[i])]_vars

----------------------------------------------------------------------------
(* Properties of select_files                                              *)

\* The last call was select_files and it returned
Selected == last_call.op = "select_files" /\ last_call.raised = "none"

\* The messages of the errors that reject a selection request
InvalidSelectionMessages ==
    {"Invalid mode", "Can't select files in a single-file torrent",
     "Can't exclude all files from the torrent"}

\* C4: when select_files fails for an invalid selection request (unknown mode,
\* single-file transfer, whitelist that selects nothing, blacklist that excludes
\* everything), the selected flag of every piece and file is as before the call.
C4_RejectedSelectionChangesNothing ==
    [][(/\ last_call'.op = "select_files"
        /\ last_call'.raised = "ValueError"
        /\ last_call'.msg \in InvalidSelectionMessages)
       => /\ \A i \in DOMAIN pieces : pieces'[i].selected = pieces[i].selected
          /\ \A j \in DOMAIN files : files'[j].selected = files[j].selected]_vars

\* Piece i (from 1) holds a byte of file j
PieceHoldsByteOf(i, j) ==
    /\ files[j].offset < (i - 1) * piece_length + pieces[i].length
    /\ (i - 1) * piece_length < files[j].offset + files[j].length

\* C5: after a successful select_files, in either mode, every piece that holds a
\* byte of a selected file is selected.
C5_PiecesOfSelectedFilesSelected ==
    Selected => \A i \in DOMAIN pieces, j \in DOMAIN files :
                    (files[j].selected /\ PieceHoldsByteOf(i, j)) => pieces[i].selected

\* A whitelist of b alone, and one of a alone, each keep piece 1 (the second),
\* which holds bytes of a/y and of b
C5_Witness ==
    /\ Selected
    /\ last_call.mode = "whitelist"
    /\ last_call.paths \in {<<<<"b">>>>, <<<<"a">>>>}
    /\ \E j, k \in DOMAIN files :
           /\ files[j].selected /\ ~ files[k].selected
           /\ PieceHoldsByteOf(2, j) /\ PieceHoldsByteOf(2, k)
    /\ pieces[2].selected
    /\ \E i \in DOMAIN pieces : ~ pieces[i].selected

\* The files that the paths of a list reach
ReachedFiles(paths) ==
    UNION {LET nodes == _traverse_nodes(files, _get_file_tree_node(files, paths[k]))
           IN  {nodes[n] : n \in 1..Len(nodes)} : k \in 1..Len(paths)}

Resolvable(paths) ==
    \A k \in 1..Len(paths) : _get_file_tree_node(files, paths[k]).kind \in {"file", "dir"}

MultiFile == ~ (Len(files) = 1 /\ files[1].path = <<>>)

\* C6: on a transfer of several files, with a valid mode and resolvable paths,
\* select_files fails exactly when the selection would be empty or total: a
\* whitelist iff the paths reach no file, a blacklist iff they reach every file.
C6_FailsIffEmptyOrTotal ==
    (/\ last_call.op = "select_files"
     /\ last_call.mode \in Modes
     /\ MultiFile
     /\ Resolvable(last_call.paths))
    => (last_call.raised # "none"
        <=> IF last_call.mode = "whitelist"
            THEN ReachedFiles(last_call.paths) = {}
            ELSE ReachedFiles(last_call.paths) = DOMAIN files)


\* C7: select_files changes only the selected flags of pieces and files: every
\* other field of every piece (downloaded, sources, bitfield, owners, pending
\* transfers), downloaded_piece_count and the files' offsets stay as they were.
C7_SelectChangesOnlySelectedFlags ==
    [][last_call'.op = "select_files" =>
          /\ DOMAIN pieces' = DOMAIN pieces
          /\ \A i \in DOMAIN pieces : [pieces'[i] EXCEPT !.selected = pieces[i].selected] = pieces[i]
          /\ bitarrays' = bitarrays
          /\ peer_sets' = peer_sets
          /\ downloaded_piece_count' = downloaded_piece_count
          /\ DOMAIN files' = DOMAIN files
          /\ \A j \in DOMAIN files : [files'[j] EXCEPT !.selected = files[j].selected] = files[j]]_vars

\* A selection has deselected a downloaded piece, counted and with a pending
\* transfer left in its set, beside a piece with a source and a bit set
C7_Witness ==
    /\ Selected
    /\ downloaded_piece_count > 0
    /\ \E i, j \in DOMAIN pieces :
           /\ pieces[i].downloaded /\ ~ pieces[i].selected
           /\ PendingOf(pieces[i]) # {}
           /\ ~ pieces[j].downloaded
           /\ BitsOf(pieces[j], bitarrays[j]) = Some(<<TRUE, FALSE>>)
           /\ SourcesOf(pieces[j], peer_sets[j]) # Some({})

----------------------------------------------------------------------------
(* Properties of complete                                                  *)

\* C3: in every state, complete implies that every selected piece is downloaded.
C3_CompleteImpliesSelectedDownloaded ==
    complete => \A i \in DOMAIN pieces : pieces[i].selected => pieces[i].downloaded


----------------------------------------------------------------------------
(* Properties of increase_distrust and is_banned                           *)

\* C8: is_banned(peer) is true if and only if increase_distrust has been called at
\* least 5 times in all with peers of the host of peer, whatever their ports, and
\* whatever resets of the run state or of the statistics have happened since.
C8_BannedIffFiveDistrusts ==
    \A peer \in Peers : is_banned(peer) <=> distrust_calls[peer.host] >= 5

\* After both resets, a host distrusted 5 times is banned on a port and a host
\* distrusted 4 times is not
C8_Witness ==
    /\ last_call.op = "reset_stats"
    /\ interesting_pieces = Some({})
    /\ distrust_calls["h1"] = 5 /\ is_banned(Peer("h1", 2)) /\ is_banned(Peer("h1", 1))
    /\ distrust_calls["h2"] = 4 /\ ~ is_banned(Peer("h2", 1))

----------------------------------------------------------------------------
(* Properties of the constructor and of bytes_left                         *)

RECURSIVE SumPieceLengths(_, _)
SumPieceLengths(pcs, n) == IF n = 0 THEN 0 ELSE SumPieceLengths(pcs, n - 1) + pcs[n].length

\* C13: a transfer is constructed only if the number of piece hashes is
\* ceil(total_size / piece_length); then every piece but the last has length
\* piece_length, the last has total_size mod piece_length if that is not 0 and
\* piece_length otherwise, and the piece lengths sum to total_size.
C13_PieceLengthsOfAcceptedTransfer ==
    Constructed =>
        LET n == Len(pieces)
            total == total_size(files)
        IN  /\ n = Ceil(total, piece_length)
            /\ n >= 1
            /\ \A k \in 1..(n - 1) : pieces[k].length = piece_length
            /\ pieces[n].length = IF total % piece_length # 0 THEN total % piece_length
                                  ELSE piece_length
            /\ SumPieceLengths(pieces, n) = total

\* A transfer of two files over three pieces, the last one short
C13_Witness ==
    /\ Constructed
    /\ Len(files) = 2
    /\ Len(pieces) = 3
    /\ pieces[3].length # piece_length
    /\ pieces[3].length > 0

RECURSIVE SumLeft(_, _)
SumLeft(pcs, n) ==
    IF n = 0 THEN 0
    ELSE SumLeft(pcs, n - 1) + (IF pcs[n].downloaded THEN 0 ELSE pcs[n].length)

\* C14: in every state where downloaded_piece_count is the number of downloaded
\* pieces, bytes_left is the sum of the lengths of the pieces not downloaded.
C14_BytesLeftIsSumOfMissingPieces ==
    (/\ Constructed
     /\ downloaded_piece_count = Cardinality({i \in DOMAIN pieces : pieces[i].downloaded}))
    => bytes_left = SumLeft(pieces, Len(pieces))

\* Of three pieces the first is downloaded and counted; the short last one is not
C14_Witness ==
    /\ Constructed
    /\ Len(pieces) = 3
    /\ pieces[3].length < piece_length
    /\ pieces[1].downloaded /\ ~ pieces[2].downloaded /\ ~ pieces[3].downloaded
    /\ downloaded_piece_count = 1
    /\ bytes_left = piece_length + pieces[3].length

----------------------------------------------------------------------------
(* Properties of the session statistics                                    *)

\* C15: the four counters start at 0; add_downloaded(peer, size) adds size to the
\* lifetime and to the per-session download counter and add_uploaded likewise for
\* upload, each leaving the other direction alone; reset_stats keeps the lifetime
\* totals, sets the per-session counters to 0 and empties both last-activity maps;
\* no other operation changes a counter.  So each lifetime total is the sum of the
\* bytes recorded since construction, each per-session counter the sum since the
\* last reset.
C15_StatsCountersAreSums ==
    /\ session_statistics.total_downloaded = 0
    /\ session_statistics.total_uploaded = 0
    /\ session_statistics.downloaded_per_session = 0
    /\ session_statistics.uploaded_per_session = 0
    /\ [][LET s == session_statistics
              t == session_statistics'
              size == last_call'.index
          IN  IF last_call'.op = "add_downloaded"
              THEN /\ t.total_downloaded = s.total_downloaded + size
                   /\ t.downloaded_per_session = s.downloaded_per_session + size
                   /\ t.total_uploaded = s.total_uploaded
                   /\ t.uploaded_per_session = s.uploaded_per_session
              ELSE IF last_call'.op = "add_uploaded"
              THEN /\ t.total_uploaded = s.total_uploaded + size
                   /\ t.uploaded_per_session = s.uploaded_per_session + size
                   /\ t.total_downloaded = s.total_downloaded
                   /\ t.downloaded_per_session = s.downloaded_per_session
              ELSE IF last_call'.op = "reset_stats"
              THEN /\ t.total_downloaded = s.total_downloaded
                   /\ t.total_uploaded = s.total_uploaded
                   /\ t.downloaded_per_session = 0
                   /\ t.uploaded_per_session = 0
                   /\ DOMAIN t.peer_last_download = {}
                   /\ DOMAIN t.peer_last_upload = {}
              ELSE /\ t.total_downloaded = s.total_downloaded
                   /\ t.total_uploaded = s.total_uploaded
                   /\ t.downloaded_per_session = s.downloaded_per_session
                   /\ t.uploaded_per_session = s.uploaded_per_session]_vars

\* Bytes were recorded in both directions, the statistics were reset, and a
\* download was recorded since
C15_Witness ==
    /\ last_call.op = "add_downloaded"
    /\ session_statistics.total_downloaded = 3
    /\ session_statistics.downloaded_per_session = 1
    /\ session_statistics.total_uploaded = 2
    /\ session_statistics.uploaded_per_session = 0
    /\ DOMAIN session_statistics.peer_last_upload = {}
    /\ DOMAIN session_statistics.peer_last_download = {Peer("h2", 1)}

----------------------------------------------------------------------------
(* Properties of ControlClient.connect                                     *)

\* The far end of the port accepts the connection and the bytes it sends begin
\* with the handshake
Qualifies(port) ==
    /\ client.servers[port].accepts
    /\ IsPrefix(HANDSHAKE_MESSAGE, client.servers[port].sends)

NoOpenChannel == \A port \in PORT_RANGE : client.channels[port] # "open"

\* C19: connect() tries the ports in the order of the range; it returns connected
\* to the first port that accepts and sends the handshake, with no earlier
\* channel left open; whenever it goes on to the next port the channel of every
\* port tried before is closed (or was never opened, if the port refused); and
\* it raises only after the last port, when no port qualifies, holding no stream
\* and with no channel open.
C19_ConnectsToFirstQualifyingPort ==
    /\ \A k \in 1..Len(client.tried) : client.tried[k] = k
    /\ \A port \in PORT_RANGE :
           (port < client.port \/ client.pc = "raised") =>
               /\ ~ Qualifies(port)
               /\ client.channels[port] = IF client.servers[port].accepts THEN "closed"
                                          ELSE "none"
    /\ client.pc = "open_connection" => (NoOpenChannel /\ client.writer = 0)
    /\ client.pc = "returned" =>
           /\ Qualifies(client.port)
           /\ client.writer = client.port /\ client.reader = client.port
           /\ client.channels[client.port] = "open"
           /\ Len(client.tried) = client.port
    /\ client.pc = "raised" =>
           /\ Len(client.tried) = MaxPorts
           /\ client.writer = 0 /\ client.reader = 0
           /\ NoOpenChannel

\* connect() has returned on the last port, after a port that sent another
\* handshake and a port that refused
C19_Witness ==
    /\ client.pc = "returned"
    /\ client.port = MaxPorts
    /\ \E p, q \in PORT_RANGE :
           /\ p < client.port /\ client.channels[p] = "closed"
           /\ client.servers[p].sends = <<"B", "X">>
           /\ q < client.port /\ ~ client.servers[q].accepts

====
